---- MODULE Spec2Model ----
(***************************************************************************)
(* Vacuum-world planner (planner.py): State, get_neighbors,                *)
(* reconstruct_path, dfs and ucs, as a state machine.  One action is one   *)
(* iteration of a search loop (or the loop's exit).                        *)
(*                                                                         *)
(* Positions are (row, col) pairs counted from 0 as in the source; the     *)
(* grid is a sequence of rows, so grid[r][c] of the source is              *)
(* grid[r + 1][c + 1] here.                                                *)
(***************************************************************************)
EXTENDS Integers, Sequences, FiniteSets

VARIABLES
    grid,             \* list of rows of cell characters (parse_world's grid)
    start_state,      \* State(start_pos, dirty) built by main
    algorithm,        \* sys.argv[1]
    pc,               \* "dfs" / "ucs": inside that loop; "done": returned
    stack,            \* dfs: list of (state, path), top is the last element
    visited,          \* dfs: set of states
    heap,             \* ucs: the heap's entries (cost, state), in pop order
    came_from,        \* ucs: state -> (action, previous state)
    cost_so_far,      \* ucs: state -> cost
    nodes_generated,
    nodes_expanded,
    current_state,    \* the state popped by the latest loop iteration
    output,           \* the lines printed so far by this run
    rerun,            \* TRUE once the same world is being searched a second time
    prev_output,      \* the lines the first run printed (when rerun)
    file              \* the world file read by parse_world: header and lines

vars == <<grid, start_state, algorithm, pc, stack, visited, heap, came_from,
          cost_so_far, nodes_generated, nodes_expanded, current_state, output,
          rerun, prev_output, file>>

----------------------------------------------------------------------------
(* Bounds of the model *)

\* a grid has at most MaxCells cells (rows * cols <= MaxCells)
MaxCells == 4
\* at most MaxDirty cells are dirty initially
MaxDirty == 1
\* a world file holds at most MaxLines grid lines, and declares as many rows
MaxLines == 2
\* a grid line holds at most MaxLineLen characters, and so many columns are
\* declared
MaxLineLen == 2

----------------------------------------------------------------------------
(* Helpers on sequences *)

Reverse(s) == [i \in 1..Len(s) |-> s[Len(s) + 1 - i]]

----------------------------------------------------------------------------
(* class State and the sentinels *)

State(position, dirty) == [position |-> position, dirty |-> dirty]

\* the value None in the start state's came_from entry (None, None)
NoneAction == "None"
NoneState == State(<<-1, -1>>, {})

\* the file of a run that is modelled from the parsed world on
NoFile == [cols |-> 0, rows |-> 0, lines |-> << >>]

\* MOVES, in dict insertion order
MOVES == << <<"N", <<-1, 0>> >>, <<"S", <<1, 0>> >>,
            <<"E", <<0, 1>> >>,  <<"W", <<0, -1>> >> >>

----------------------------------------------------------------------------
(* get_neighbors *)

\* the target of move m from position p
MoveTarget(p, m) == <<p[1] + m[2][1], p[2] + m[2][2]>>

\* 0 <= nr < len(grid) and 0 <= nc < len(grid[0])
InGrid(p, g) ==
    /\ 0 <= p[1] /\ p[1] < Len(g)
    /\ 0 <= p[2] /\ p[2] < Len(g[1])

\* mutant: the wall test looks for the dirt character
C5_NotStar(p, g) == g[p[1] + 1][p[2] + 1] # "*"

\* mutant: the wall test is left out
C17_WallIgnored(p, g) == TRUE

\* grid[nr][nc] != '#'
NotWall(p, g) == g[p[1] + 1][p[2] + 1] # "#"

\* the four-direction loop: the (action, State) pairs of the legal moves
MoveNeighbors(state, g) ==
    LET ok(m) == LET t == MoveTarget(state.position, m)
                 IN  InGrid(t, g) /\ NotWall(t, g)
        sel == SelectSeq(MOVES, ok)
    IN  [i \in 1..Len(sel) |->
            <<sel[i][1], State(MoveTarget(state.position, sel[i]), state.dirty)>>]

\* mutant: the vacuum successor keeps the cell in the dirty set
C10_VacuumKeepsDirt(state) ==
    IF state.position \in state.dirty
    THEN << <<"V", State(state.position, state.dirty)>> >>
    ELSE << >>

\* mutant: the vacuum successor is emitted on clean cells too
C13_VacuumAlways(state) ==
    << <<"V", State(state.position, state.dirty \ {state.position})>> >>

\* the vacuum branch
VacuumNeighbors(state) ==
    IF state.position \in state.dirty
    THEN << <<"V", State(state.position, state.dirty \ {state.position})>> >>
    ELSE << >>

GetNeighbors(state, g) == MoveNeighbors(state, g) \o VacuumNeighbors(state)

----------------------------------------------------------------------------
(* reconstruct_path and the printing of a result *)

\* the while loop: the actions met walking predecessor links, end first
RECURSIVE WalkBack(_, _)
WalkBack(cf, end_state) ==
    IF cf[end_state][1] = NoneAction
    THEN << >>
    ELSE <<cf[end_state][1]>> \o WalkBack(cf, cf[end_state][2])

\* mutant: the path is returned without reversing it
C2_PathNotReversed(cf, end_state) == WalkBack(cf, end_state)

reconstruct_path(cf, end_state) == Reverse(WalkBack(cf, end_state))

\* for action in path: print(action); then the two counter lines
Report(path, generated, expanded) ==
    [i \in 1..Len(path) |-> <<path[i]>>]
        \o << <<generated, "nodes generated">>, <<expanded, "nodes expanded">> >>

\* mutant: the goal test looks at the agent's cell alone
C1_CellIsClean(state) == state.position \notin state.dirty

\* if not current_state.dirty: the goal test of both strategies
IsGoal(state) == state.dirty = {}

----------------------------------------------------------------------------
(* dfs *)

\* stack.pop(): the popped element and what is left
Top(stk) == stk[Len(stk)]
Pop(stk) == SubSeq(stk, 1, Len(stk) - 1)

\* mutant: a neighbor is pushed with the path of the expanded state
C18_PushesSamePath(state, path, vis, g) ==
    LET nbrs == Reverse(GetNeighbors(state, g))
        new(n) == n[2] \notin vis
        sel == SelectSeq(nbrs, new)
    IN  [i \in 1..Len(sel) |-> <<sel[i][2], path>>]

\* mutant: the neighbors are pushed in emission order, not reversed
C12_PushesForward(state, path, vis, g) ==
    LET nbrs == GetNeighbors(state, g)
        new(n) == n[2] \notin vis
        sel == SelectSeq(nbrs, new)
    IN  [i \in 1..Len(sel) |-> <<sel[i][2], Append(path, sel[i][1])>>]

\* the for loop of dfs: what it appends to the stack, in order
DfsPushes(state, path, vis, g) ==
    LET rev == Reverse(GetNeighbors(state, g))
        new(n) == n[2] \notin vis
        sel == SelectSeq(rev, new)
    IN  [i \in 1..Len(sel) |-> <<sel[i][2], Append(path, sel[i][1])>>]

ucsVars == <<heap, came_from, cost_so_far>>
dfsVars == <<stack, visited>>
worldVars == <<grid, start_state, algorithm, rerun, prev_output, file>>

\* mutant: a popped state that was already visited is counted as expanded
C14_DfsSkipCounts ==
    /\ pc = "dfs"
    /\ stack # << >>
    /\ Top(stack)[1] \in visited
    /\ current_state' = Top(stack)[1]
    /\ stack' = Pop(stack)
    /\ nodes_expanded' = nodes_expanded + 1
    /\ UNCHANGED <<visited, nodes_generated, output, pc, ucsVars, worldVars>>

\* popped state already visited: continue
DfsSkip ==
    /\ pc = "dfs"
    /\ stack # << >>
    /\ Top(stack)[1] \in visited
    /\ current_state' = Top(stack)[1]
    /\ stack' = Pop(stack)
    /\ UNCHANGED <<visited, nodes_generated, nodes_expanded, output, pc,
                   ucsVars, worldVars>>

\* mutant: the expanded counter is printed before it counts the goal
C4_DfsGoalCountsLate ==
    /\ pc = "dfs"
    /\ stack # << >>
    /\ Top(stack)[1] \notin visited
    /\ IsGoal(Top(stack)[1])
    /\ current_state' = Top(stack)[1]
    /\ stack' = Pop(stack)
    /\ visited' = visited \cup {Top(stack)[1]}
    /\ nodes_expanded' = nodes_expanded + 1
    /\ output' = output \o Report(Top(stack)[2], nodes_generated, nodes_expanded)
    /\ pc' = "done"
    /\ UNCHANGED <<nodes_generated, ucsVars, worldVars>>

\* popped state is a goal: print and return
DfsGoal ==
    /\ pc = "dfs"
    /\ stack # << >>
    /\ Top(stack)[1] \notin visited
    /\ IsGoal(Top(stack)[1])
    /\ current_state' = Top(stack)[1]
    /\ stack' = Pop(stack)
    /\ visited' = visited \cup {Top(stack)[1]}
    /\ nodes_expanded' = nodes_expanded + 1
    /\ output' = output \o Report(Top(stack)[2], nodes_generated, nodes_expanded')
    /\ pc' = "done"
    /\ UNCHANGED <<nodes_generated, ucsVars, worldVars>>

\* popped state is new and not a goal: push its unvisited neighbors
DfsExpand ==
    /\ pc = "dfs"
    /\ stack # << >>
    /\ Top(stack)[1] \notin visited
    /\ ~IsGoal(Top(stack)[1])
    /\ current_state' = Top(stack)[1]
    /\ visited' = visited \cup {Top(stack)[1]}
    /\ nodes_expanded' = nodes_expanded + 1
    /\ LET pushes == DfsPushes(Top(stack)[1], Top(stack)[2], visited', grid)
       IN  /\ stack' = Pop(stack) \o pushes
           /\ nodes_generated' = nodes_generated + Len(pushes)
    /\ UNCHANGED <<output, pc, ucsVars, worldVars>>

\* while stack: is false, dfs returns without printing
DfsEnd ==
    /\ pc = "dfs"
    /\ stack = << >>
    /\ pc' = "done"
    /\ UNCHANGED <<stack, visited, nodes_generated, nodes_expanded,
                   current_state, output, ucsVars, worldVars>>

----------------------------------------------------------------------------
(* ucs *)
(***************************************************************************)
(* A heap entry is (cost, id(state), state) and heappop returns the least  *)
(* entry in tuple order.  id() is the address of the State object, a value *)
(* the program does not choose: it is only known to differ between objects *)
(* alive together, and every entry in the heap keeps its state alive.  So  *)
(* two entries never agree on (cost, id), the State in third place is      *)
(* never compared, and among entries of equal cost the addresses decide.   *)
(* The model keeps the heap as the list of its (cost, state) entries in    *)
(* the order heappop would return them; the address of a pushed state      *)
(* shows as the place the entry takes among the entries of its cost, and   *)
(* any such place is possible.                                             *)
(***************************************************************************)

\* d[k] = v
Put(d, k, v) == [x \in DOMAIN d \cup {k} |-> IF x = k THEN v ELSE d[x]]

InsertAt(h, p, e) == SubSeq(h, 1, p) \o <<e>> \o SubSeq(h, p + 1, Len(h))

\* mutant: a pushed entry always goes to the front of the heap
C15_PlacesFront(h, e) == {0}

\* the places (number of entries in front) entry e can take in heap h:
\* behind every cheaper entry, in front of every dearer one, anywhere among
\* the entries of its own cost
Places(h, e) ==
    {p \in 0..Len(h) : /\ \A i \in 1..p : h[i][1] <= e[1]
                       /\ \A i \in (p + 1)..Len(h) : h[i][1] >= e[1]}

\* heapq.heappush(heap, (cost, id(state), state)): every heap it can give
HeapPush(h, e) == {InsertAt(h, p, e) : p \in Places(h, e)}

\* mutant: only a neighbor already recorded at a higher cost is pushed
C19_ImprovesRecorded(neighbor, new_cost, csf) ==
    neighbor \in DOMAIN csf /\ new_cost < csf[neighbor]

\* mutant: the cost comparison is turned around
C20_ImprovesOrDearer(neighbor, new_cost, csf) ==
    neighbor \notin DOMAIN csf \/ new_cost > csf[neighbor]

\* mutant: a neighbor reached again at the same cost is pushed again
C3_ImprovesOrEqual(neighbor, new_cost, csf) ==
    neighbor \notin DOMAIN csf \/ new_cost <= csf[neighbor]

\* the condition under which ucs records and pushes a neighbor
UcsImproves(neighbor, new_cost, csf) ==
    neighbor \notin DOMAIN csf \/ new_cost < csf[neighbor]

\* mutant: nodes_generated counts every neighbor, pushed or not
C9_VisitCountsAll(action, neighbor, cost, cur, r) ==
    LET new_cost == cost + 1
    IN  IF UcsImproves(neighbor, new_cost, r.cost_so_far)
        THEN {[cost_so_far |-> Put(r.cost_so_far, neighbor, new_cost),
               heap |-> h,
               came_from |-> Put(r.came_from, neighbor, <<action, cur>>),
               nodes_generated |-> r.nodes_generated + 1] :
                  h \in HeapPush(r.heap, <<new_cost, neighbor>>)}
        ELSE {[r EXCEPT !.nodes_generated = @ + 1]}

\* mutant: the predecessor link skips the expanded state and points at that
\* state's own predecessor
C16_VisitLinksSentinel(action, neighbor, cost, cur, r) ==
    LET new_cost == cost + 1
    IN  IF UcsImproves(neighbor, new_cost, r.cost_so_far)
        THEN {[cost_so_far |-> Put(r.cost_so_far, neighbor, new_cost),
               heap |-> h,
               came_from |-> Put(r.came_from, neighbor,
                                 <<action, IF new_cost > 1
                                           THEN r.came_from[cur][2] ELSE cur>>),
               nodes_generated |-> r.nodes_generated + 1] :
                  h \in HeapPush(r.heap, <<new_cost, neighbor>>)}
        ELSE {r}

\* the body of the for loop of ucs for one neighbor, from the locals r
\* (heap, came_from, cost_so_far, nodes_generated): every r it can give
UcsVisit(action, neighbor, cost, cur, r) ==
    LET new_cost == cost + 1
    IN  IF UcsImproves(neighbor, new_cost, r.cost_so_far)
        THEN {[cost_so_far |-> Put(r.cost_so_far, neighbor, new_cost),
               heap |-> h,
               came_from |-> Put(r.came_from, neighbor, <<action, cur>>),
               nodes_generated |-> r.nodes_generated + 1] :
                  h \in HeapPush(r.heap, <<new_cost, neighbor>>)}
        ELSE {r}

\* the for loop of ucs from neighbor i on
RECURSIVE UcsLoop(_, _, _, _, _)
UcsLoop(nbrs, i, cost, cur, r) ==
    IF i > Len(nbrs)
    THEN {r}
    ELSE UNION {UcsLoop(nbrs, i + 1, cost, cur, r2) :
                    r2 \in UcsVisit(nbrs[i][1], nbrs[i][2], cost, cur, r)}

\* popped state is a goal: reconstruct, print and return
UcsGoal ==
    /\ pc = "ucs"
    /\ heap # << >>
    /\ IsGoal(Head(heap)[2])
    /\ current_state' = Head(heap)[2]
    /\ heap' = Tail(heap)
    /\ nodes_expanded' = nodes_expanded + 1
    /\ output' = output \o Report(reconstruct_path(came_from, Head(heap)[2]),
                                  nodes_generated, nodes_expanded')
    /\ pc' = "done"
    /\ UNCHANGED <<came_from, cost_so_far, nodes_generated, dfsVars, worldVars>>

\* popped state is not a goal: record and push the neighbors that improve
UcsExpand ==
    /\ pc = "ucs"
    /\ heap # << >>
    /\ ~IsGoal(Head(heap)[2])
    /\ current_state' = Head(heap)[2]
    /\ nodes_expanded' = nodes_expanded + 1
    /\ \E r \in UcsLoop(GetNeighbors(Head(heap)[2], grid), 1, Head(heap)[1],
                        Head(heap)[2],
                        [heap |-> Tail(heap), came_from |-> came_from,
                         cost_so_far |-> cost_so_far,
                         nodes_generated |-> nodes_generated]) :
         /\ heap' = r.heap
         /\ came_from' = r.came_from
         /\ cost_so_far' = r.cost_so_far
         /\ nodes_generated' = r.nodes_generated
    /\ UNCHANGED <<output, pc, dfsVars, worldVars>>

\* mutant: the counters are printed when the heap runs empty
C6_UcsEndPrints ==
    /\ pc = "ucs"
    /\ heap = << >>
    /\ pc' = "done"
    /\ output' = output \o Report(<< >>, nodes_generated, nodes_expanded)
    /\ UNCHANGED <<heap, came_from, cost_so_far, nodes_generated,
                   nodes_expanded, current_state, dfsVars, worldVars>>

\* while heap: is false, ucs returns without printing
UcsEnd ==
    /\ pc = "ucs"
    /\ heap = << >>
    /\ pc' = "done"
    /\ UNCHANGED <<heap, came_from, cost_so_far, nodes_generated,
                   nodes_expanded, current_state, output, dfsVars, worldVars>>

----------------------------------------------------------------------------
(* main: the world, the start state and the dispatch on the algorithm *)

Cells(rows, cols) == (0..(rows - 1)) \X (0..(cols - 1))

\* the grid parse_world builds: '#' for a wall, '*' for a dirty cell, '_'
\* for the agent's cell and for every other cell
GridOf(rows, cols, walls, dirty, start) ==
    [r \in 1..rows |-> [c \in 1..cols |->
        IF <<r - 1, c - 1>> \in walls THEN "#"
        ELSE IF <<r - 1, c - 1>> \in dirty /\ <<r - 1, c - 1>> # start THEN "*"
        ELSE "_"]]

\* the locals of dfs and of ucs on entry
EntryPc(alg) == IF alg = "depth-first" THEN "dfs" ELSE "ucs"
EntryStack(alg, s0) == IF alg = "depth-first" THEN << <<s0, << >> >> >> ELSE << >>
EntryHeap(alg, s0) == IF alg = "uniform-cost" THEN << <<0, s0>> >> ELSE << >>
EntryCameFrom(alg, s0) ==
    IF alg = "uniform-cost" THEN [s \in {s0} |-> <<NoneAction, NoneState>>] ELSE << >>
EntryCostSoFar(alg, s0) ==
    IF alg = "uniform-cost" THEN [s \in {s0} |-> 0] ELSE << >>

Shapes == {sh \in (1..MaxCells) \X (1..MaxCells) : sh[1] * sh[2] <= MaxCells}

Init ==
    \E sh \in Shapes :
      \E walls \in SUBSET Cells(sh[1], sh[2]) :
        \E start \in Cells(sh[1], sh[2]) \ walls :
          \E dirty \in SUBSET (Cells(sh[1], sh[2]) \ walls) :
            \E alg \in {"depth-first", "uniform-cost"} :
                /\ Cardinality(dirty) <= MaxDirty
                /\ grid = GridOf(sh[1], sh[2], walls, dirty, start)
                /\ start_state = State(start, dirty)
                /\ algorithm = alg
                /\ rerun = FALSE
                /\ prev_output = << >>
                /\ file = NoFile
                /\ pc = EntryPc(alg)
                /\ stack = EntryStack(alg, State(start, dirty))
                /\ visited = {}
                /\ heap = EntryHeap(alg, State(start, dirty))
                /\ came_from = EntryCameFrom(alg, State(start, dirty))
                /\ cost_so_far = EntryCostSoFar(alg, State(start, dirty))
                /\ nodes_generated = 0
                /\ nodes_expanded = 0
                /\ current_state = NoneState
                /\ output = << >>

\* the same world is searched again by the same strategy, every structure
\* constructed afresh
Rerun ==
    /\ pc = "done"
    /\ ~rerun
    /\ rerun' = TRUE
    /\ prev_output' = output
    /\ heap' = EntryHeap(algorithm, start_state)
    /\ pc' = EntryPc(algorithm)
    /\ stack' = EntryStack(algorithm, start_state)
    /\ visited' = {}
    /\ came_from' = EntryCameFrom(algorithm, start_state)
    /\ cost_so_far' = EntryCostSoFar(algorithm, start_state)
    /\ nodes_generated' = 0
    /\ nodes_expanded' = 0
    /\ current_state' = NoneState
    /\ output' = << >>
    /\ UNCHANGED <<grid, start_state, algorithm, file>>

Next ==
    \/ DfsSkip
    \/ DfsGoal
    \/ DfsExpand
    \/ DfsEnd
    \/ UcsGoal
    \/ UcsExpand
    \/ UcsEnd
    \/ Rerun

Spec == Init /\ [][Next]_vars

----------------------------------------------------------------------------
(* parse_world, run by main on a world file *)

\* the characters of a grid line: open, wall, dirt, agent, and a blank
FileChars == {"_", "#", "*", "@", " "}

FileLines == UNION {[1..n -> FileChars] : n \in 0..MaxLineLen}

\* a world file after its two header lines were read by int(f.readline())
Files ==
    [cols : 0..MaxLineLen, rows : 0..MaxLines,
     lines : UNION {[1..n -> FileLines] : n \in 0..MaxLines}]

\* f.readline() for grid row r (from 1): the line, or '' at the end of file
ReadLine(f, r) == IF r <= Len(f.lines) THEN f.lines[r] ELSE << >>

\* str.strip(): blanks at both ends removed
RECURSIVE Strip(_)
Strip(line) ==
    IF line = << >> THEN line
    ELSE IF Head(line) = " " THEN Strip(Tail(line))
    ELSE IF line[Len(line)] = " " THEN Strip(SubSeq(line, 1, Len(line) - 1))
    ELSE line

\* the row built from a stripped line: '@' becomes '_', the rest is kept
ParseRow(line) == [c \in 1..Len(line) |-> IF line[c] = "@" THEN "_" ELSE line[c]]

\* for r in range(rows): the grid, one row for each declared row
ParseGrid(f) == [r \in 1..f.rows |-> ParseRow(Strip(ReadLine(f, r)))]

\* the (r, c) of the declared rows that hold character ch
ParsePositions(f, ch) ==
    {p \in (0..(f.rows - 1)) \X (0..(MaxLineLen - 1)) :
        /\ p[2] + 1 <= Len(Strip(ReadLine(f, p[1] + 1)))
        /\ Strip(ReadLine(f, p[1] + 1))[p[2] + 1] = ch}

\* start: the last '@' met in reading order, None when there is none
ParseStart(f) ==
    LET ats == ParsePositions(f, "@")
    IN  IF ats = {} THEN NoneState.position
        ELSE CHOOSE p \in ats :
                \A q \in ats : q[1] < p[1] \/ (q[1] = p[1] /\ q[2] <= p[2])

\* main, lines 142-143: parse_world returns and the start state is built;
\* parse_world raises nowhere once the header is read
ParseWorld ==
    /\ pc = "parse"
    /\ grid' = ParseGrid(file)
    /\ start_state' = State(ParseStart(file), ParsePositions(file, "*"))
    /\ pc' = "parsed"
    /\ UNCHANGED <<algorithm, stack, visited, heap, came_from, cost_so_far,
                   nodes_generated, nodes_expanded, current_state, output,
                   rerun, prev_output, file>>

ParseInit ==
    /\ file \in Files
    /\ pc = "parse"
    /\ grid = << >>
    /\ start_state = NoneState
    /\ algorithm = "depth-first"
    /\ stack = << >>
    /\ visited = {}
    /\ heap = << >>
    /\ came_from = << >>
    /\ cost_so_far = << >>
    /\ nodes_generated = 0
    /\ nodes_expanded = 0
    /\ current_state = NoneState
    /\ output = << >>
    /\ rerun = FALSE
    /\ prev_output = << >>

ParseNext == ParseWorld

\* the program up to the return of parse_world
ParseSpec == ParseInit /\ [][ParseNext]_vars

----------------------------------------------------------------------------
(* What the claims speak of, stated apart from the search code *)

\* the action lines of the output, without the two counter lines
PrintedPath == [i \in 1..(Len(output) - 2) |-> output[i][1]]

Rows == Len(grid)
Cols == Len(grid[1])
IsWall(p) == grid[p[1] + 1][p[2] + 1] = "#"

\* the legal actions of the vacuum world: a move N/S/E/W into an in-bounds
\* non-wall cell keeps the dirt, V on a dirty cell removes that cell's dirt
LegalSuccessors(s) ==
    {State(t, s.dirty) :
        t \in {u \in {<<s.position[1] - 1, s.position[2]>>,
                      <<s.position[1] + 1, s.position[2]>>,
                      <<s.position[1], s.position[2] + 1>>,
                      <<s.position[1], s.position[2] - 1>>} :
                  u \in Cells(Rows, Cols) /\ ~IsWall(u)}}
    \cup (IF s.position \in s.dirty
          THEN {State(s.position, s.dirty \ {s.position})}
          ELSE {})

\* breadth-first layers: the least number of legal actions from a state of
\* frontier to a state without dirt, counted from k; -1 when there is none
RECURSIVE Layers(_, _, _)
Layers(frontier, seen, k) ==
    IF \E s \in frontier : s.dirty = {} THEN k
    ELSE IF frontier = {} THEN -1
    ELSE Layers((UNION {LegalSuccessors(s) : s \in frontier}) \ seen,
                seen \cup UNION {LegalSuccessors(s) : s \in frontier}, k + 1)

ShortestLen == Layers({start_state}, {start_state}, 0)

\* the least number of legal actions from a state of frontier to target,
\* counted from k; -1 when target cannot be reached
RECURSIVE DistLayers(_, _, _, _)
DistLayers(frontier, seen, k, target) ==
    IF target \in frontier THEN k
    ELSE IF frontier = {} THEN -1
    ELSE DistLayers((UNION {LegalSuccessors(s) : s \in frontier}) \ seen,
                    seen \cup UNION {LegalSuccessors(s) : s \in frontier},
                    k + 1, target)

\* the length of a shortest legal action sequence from the start state to s
Dist(s) == DistLayers({start_state}, {start_state}, 0, s)

\* path can be executed from state s through get_neighbors' successors and
\* ends in a state without dirt
RECURSIVE Executable(_, _)
Executable(s, path) ==
    IF path = << >>
    THEN s.dirty = {}
    ELSE LET nbrs == GetNeighbors(s, grid)
         IN  \E i \in 1..Len(nbrs) :
                nbrs[i][1] = Head(path) /\ Executable(nbrs[i][2], Tail(path))

\* every state of the world: a cell of the grid and a subset of the
\* initial dirt
StateSpace ==
    {State(p, d) : p \in Cells(Rows, Cols), d \in SUBSET start_state.dirty}

\* one list of neighbors holds at most four moves and a vacuum
MaxNeighbors == Len(MOVES) + 1

\* the measure of the work left: dfs visits a new state or shortens the
\* stack; ucs records a new state with each push and pops one entry
Rank ==
    IF pc = "dfs"
    THEN (MaxNeighbors + 1) * Cardinality(StateSpace \ visited) + Len(stack)
    ELSE IF pc = "ucs"
    THEN 2 * Cardinality(StateSpace \ DOMAIN cost_so_far) + Len(heap)
    ELSE 0

\* the order in which successors are to be emitted
ActionOrder == <<"N", "S", "E", "W", "V">>

\* the states a legal action a leads to from state s: one, or none when
\* the action is not legal there
StepBy(s, a) ==
    LET t == CASE a = "N" -> <<s.position[1] - 1, s.position[2]>>
               [] a = "S" -> <<s.position[1] + 1, s.position[2]>>
               [] a = "E" -> <<s.position[1], s.position[2] + 1>>
               [] a = "W" -> <<s.position[1], s.position[2] - 1>>
               [] OTHER -> s.position
    IN  IF a = "V"
        THEN IF s.position \in s.dirty
             THEN {State(s.position, s.dirty \ {s.position})} ELSE {}
        ELSE IF t \in Cells(Rows, Cols) /\ ~IsWall(t)
             THEN {State(t, s.dirty)} ELSE {}

----------------------------------------------------------------------------
(* C1: when ucs prints a path, no sequence of legal actions from the start *)
(* state to a state with no dirt is shorter than the printed path          *)
C1_UcsPathMinimal ==
    (pc = "done" /\ algorithm = "uniform-cost" /\ output # << >>)
        => Len(PrintedPath) = ShortestLen

C1_Witness ==
    /\ pc = "done" /\ algorithm = "uniform-cost"
    /\ output # << >> /\ Len(PrintedPath) >= 3
    /\ Rows = 2 /\ Cols = 2

(* C2: a path printed by dfs or ucs is executable from the start state     *)
(* through get_neighbors' successors and ends in a state with no dirt      *)
C2_PrintedPathExecutable ==
    (pc = "done" /\ output # << >>) => Executable(start_state, PrintedPath)

C2_Witness ==
    /\ pc = "done" /\ algorithm = "uniform-cost"
    /\ output # << >> /\ Len(PrintedPath) >= 3

(* C3: dfs and ucs terminate: every iteration of either loop strictly      *)
(* lowers a measure that is a natural number (the states not yet visited,  *)
(* resp. not yet recorded, weighed against the size of the frontier), so   *)
(* neither loop runs forever, and a loop ends by returning                 *)
C3_Terminates == [][pc # "done" => (Rank' < Rank /\ Rank' >= 0)]_vars

C3_Witness == pc = "done" /\ nodes_expanded >= 2 /\ output = << >>

(* C4: with no dirty cell, both strategies print no action, 0 nodes        *)
(* generated and 1 node expanded                                           *)
C4_NoDirtOutput ==
    (pc = "done" /\ start_state.dirty = {})
        => /\ output = << <<0, "nodes generated">>, <<1, "nodes expanded">> >>
           /\ nodes_generated = 0
           /\ nodes_expanded = 1

C4_Witness ==
    /\ pc = "done" /\ start_state.dirty = {}
    /\ Rows * Cols >= 3 /\ algorithm = "depth-first"

(* C5: get_neighbors emits a move in direction d exactly when the cell    *)
(* one step in direction d is inside the grid and is not a wall, and the   *)
(* emitted state stands on that cell.  The grid does not change during a   *)
(* run, so every state of the world is examined when the search is entered *)
C5_MovesIffOpen ==
    (pc # "done" /\ nodes_expanded = 0) =>
      \A s \in StateSpace :
        \A m \in 1..Len(MOVES) :
          LET nbrs == GetNeighbors(s, grid)
              t == <<s.position[1] + MOVES[m][2][1], s.position[2] + MOVES[m][2][2]>>
              emitted == {i \in 1..Len(nbrs) : nbrs[i][1] = MOVES[m][1]}
          IN  /\ (emitted # {}) <=> (t \in Cells(Rows, Cols) /\ ~IsWall(t))
              /\ \A i \in emitted : nbrs[i][2].position = t

C5_Witness ==
    /\ pc # "done" /\ nodes_expanded = 0
    /\ \E s \in StateSpace :
      /\ Len(MoveNeighbors(s, grid)) = 1
      /\ \E u \in Cells(Rows, Cols) :
            /\ IsWall(u)
            /\ (u[1] - s.position[1]) * (u[1] - s.position[1])
                 + (u[2] - s.position[2]) * (u[2] - s.position[2]) = 1
      /\ \E u \in Cells(Rows, Cols) : grid[u[1] + 1][u[2] + 1] = "*"

(* C6: when no state without dirt can be reached, dfs and ucs return with  *)
(* no output at all; output exists only once a goal state has been popped  *)
C6_NoSolutionNoOutput ==
    /\ (pc = "done" /\ ShortestLen = -1) => output = << >>
    /\ output # << >> => (pc = "done" /\ current_state.dirty = {})

C6_Witness ==
    /\ pc = "done" /\ ShortestLen = -1
    /\ nodes_expanded >= 2 /\ algorithm = "uniform-cost"

(* C7: a second run of the same strategy on the same world prints what     *)
(* the first run printed                                                   *)
C7_SameOutputTwice == (pc = "done" /\ rerun) => output = prev_output

(* C8: in ucs an entry pushed later is popped later among entries of       *)
(* equal cost: a step of the loop leaves the entries already in the heap   *)
(* in front of the ones it pushes, and those in the order of the pushes    *)
C8_CreationOrder ==
    [][(pc = "ucs" /\ pc' = "ucs" /\ heap # << >>) =>
          LET nbrs == GetNeighbors(Head(heap)[2], grid)
              n == Len(heap) - 1
              pos(st) == CHOOSE i \in 1..Len(nbrs) : nbrs[i][2] = st
          IN  /\ Len(heap') >= n
              /\ SubSeq(heap', 1, n) = Tail(heap)
              /\ \A i, j \in (n + 1)..Len(heap') :
                    i < j => pos(heap'[i][2]) < pos(heap'[j][2])]_vars

(* C9: on the world of 1 row and 3 columns with the agent at (0,0), dirt   *)
(* at (0,1) and a wall at (0,2), ucs prints E, V, 2 nodes generated,       *)
(* 3 nodes expanded                                                        *)
C9_World ==
    /\ grid = << <<"_", "*", "#">> >>
    /\ start_state = State(<<0, 0>>, {<<0, 1>>})
    /\ algorithm = "uniform-cost"

C9_ExampleOutput ==
    (C9_World /\ pc = "done")
        => output = << <<"E">>, <<"V">>,
                       <<2, "nodes generated">>, <<3, "nodes expanded">> >>

C9_Witness == C9_World /\ pc = "done" /\ nodes_expanded = 3

(* C10: on the grid of one cell, not a wall, dirty and holding the agent,  *)
(* both strategies take exactly two iterations: the first expands the      *)
(* start state and pushes its V successor alone, the second pops that goal *)
(* and prints V, 1 nodes generated, 2 nodes expanded                       *)
C10_World ==
    /\ Rows = 1 /\ Cols = 1
    /\ start_state = State(<<0, 0>>, {<<0, 0>>})

C10_SingleDirtyCell ==
    C10_World =>
        \/ /\ pc \in {"dfs", "ucs"}
           /\ nodes_expanded = 0
           /\ stack \o heap # << >>
        \/ /\ pc \in {"dfs", "ucs"}
           /\ nodes_expanded = 1
           /\ stack = IF pc = "dfs" THEN << <<State(<<0, 0>>, {}), <<"V">> >> >> ELSE << >>
           /\ heap = IF pc = "ucs" THEN << <<1, State(<<0, 0>>, {})>> >> ELSE << >>
        \/ /\ pc = "done"
           /\ output = << <<"V">>, <<1, "nodes generated">>, <<2, "nodes expanded">> >>

C10_Witness == C10_World /\ pc = "done" /\ algorithm = "depth-first"

(* C11: parse_world returns no world when the number of grid lines in the *)
(* file differs from the declared row count or a grid line is shorter than *)
(* the declared column count: a returned grid has as many rows as the file *)
(* has lines and as declared, each of exactly cols cells                   *)
C11_ParseRejectsMismatch ==
    pc = "parsed" =>
        /\ Len(file.lines) = file.rows
        /\ Len(grid) = file.rows
        /\ \A r \in 1..Len(grid) : Len(grid[r]) = file.cols

(* C12: get_neighbors emits the legal successors in the order N, S, E, W, *)
(* V, and an iteration of dfs that expands a state expands the top of the  *)
(* stack and leaves on top the first successor in that order that is not   *)
(* visited, which the next iteration therefore expands                     *)
C12_DfsForwardOrder ==
    [][(pc = "dfs" /\ pc' = "dfs" /\ nodes_expanded' = nodes_expanded + 1) =>
          LET s == current_state'
              nbrs == GetNeighbors(s, grid)
              legal == SelectSeq(ActionOrder, LAMBDA a : StepBy(s, a) # {})
              fresh == SelectSeq(legal, LAMBDA a : StepBy(s, a) \cap visited' = {})
          IN  /\ s = Top(stack)[1]
              /\ [i \in 1..Len(nbrs) |-> nbrs[i][1]] = legal
              /\ fresh # << >> =>
                    /\ stack' # << >>
                    /\ Top(stack')[1] \in StepBy(s, fresh[1])
                    /\ Top(stack')[1] \notin visited'
                    /\ Top(stack')[2] = Append(Top(stack)[2], fresh[1])]_vars

C12_Witness ==
    /\ pc = "dfs" /\ nodes_expanded >= 2
    /\ Len(stack) >= 2
    /\ Top(stack)[1] \notin visited
    /\ Top(stack)[2][Len(Top(stack)[2])] = "S"

(* C13: get_neighbors emits a V successor exactly when the position is in *)
(* the dirty set, with the same position and the dirty set minus exactly   *)
(* that position; every move successor carries the dirty set unchanged;    *)
(* and expanding a state changes neither the grid nor the expanded state   *)
C13_VacuumFrame ==
    [][/\ (pc # "done" /\ nodes_expanded = 0) =>
            \A s \in StateSpace :
              LET nbrs == GetNeighbors(s, grid)
                  vs == {i \in 1..Len(nbrs) : nbrs[i][1] = "V"}
              IN  /\ (vs # {}) <=> (s.position \in s.dirty)
                  /\ Cardinality(vs) <= 1
                  /\ \A i \in vs :
                        /\ nbrs[i][2].position = s.position
                        /\ nbrs[i][2].dirty \subseteq s.dirty
                        /\ s.dirty \ nbrs[i][2].dirty = {s.position}
                  /\ \A i \in (1..Len(nbrs)) \ vs : nbrs[i][2].dirty = s.dirty
       /\ pc # "done" => grid' = grid
       /\ (pc = "dfs" /\ nodes_expanded' = nodes_expanded + 1) =>
             current_state' = Top(stack)[1]
       /\ (pc = "ucs" /\ nodes_expanded' = nodes_expanded + 1) =>
             current_state' = Head(heap)[2]]_vars

C13_Witness ==
    /\ pc # "done" /\ nodes_expanded = 1
    /\ current_state.position \in current_state.dirty
    /\ nodes_generated >= 2
    /\ \E s \in StateSpace : s.position \notin s.dirty /\ s.dirty # {}

(* C14: no state is expanded twice in a run: in dfs the expanded counter  *)
(* is the size of the visited set; in ucs the heap never holds a state     *)
(* twice, every recorded state is pushed once, and the expanded counter is *)
(* the number of recorded states that have left the heap                   *)
C14_ExpandedOnce ==
    /\ algorithm = "depth-first" => nodes_expanded = Cardinality(visited)
    /\ algorithm = "uniform-cost" =>
          /\ \A i, j \in 1..Len(heap) : i # j => heap[i][2] # heap[j][2]
          /\ \A i \in 1..Len(heap) : heap[i][2] \in DOMAIN cost_so_far
          /\ nodes_expanded = Cardinality(DOMAIN cost_so_far) - Len(heap)

\* a dfs run in which a pop found its state already visited
C14_Witness ==
    /\ algorithm = "depth-first"
    /\ nodes_expanded >= 2
    /\ nodes_generated + 1 - Len(stack) > nodes_expanded

(* C15: the entry ucs pops next carries as its cost the length of a       *)
(* shortest legal action sequence from the start state to its state, and   *)
(* that cost is not below the cost of the entry popped before it           *)
C15_PoppedCostShortest ==
    (pc = "ucs" /\ heap # << >>) =>
        /\ Head(heap)[1] = Dist(Head(heap)[2])
        /\ Head(heap)[1] = cost_so_far[Head(heap)[2]]
        /\ nodes_expanded > 0 => cost_so_far[current_state] <= Head(heap)[1]

\* after several pops, entries of the popped state's cost wait behind the head
C15_Witness ==
    /\ pc = "ucs" /\ nodes_expanded >= 3
    /\ Len(heap) >= 2
    /\ Head(heap)[1] = 2
    /\ heap[Len(heap)][1] = 3

\* the number of predecessor links from s to the sentinel entry, walking at
\* most fuel links; -1 when the sentinel is not met within them
RECURSIVE LinksToStart(_, _, _)
LinksToStart(cf, s, fuel) ==
    IF cf[s] = <<NoneAction, NoneState>> THEN 0
    ELSE IF fuel = 0 \/ cf[s][2] \notin DOMAIN cf THEN -1
    ELSE LET n == LinksToStart(cf, cf[s][2], fuel - 1)
         IN  IF n < 0 THEN -1 ELSE n + 1

\* the state that executing path from s ends in; NoneState when an action
\* of path is not legal where it is taken
RECURSIVE Replay(_, _)
Replay(s, path) ==
    IF path = << >> THEN s
    ELSE IF StepBy(s, Head(path)) = {} THEN NoneState
    ELSE Replay(CHOOSE t \in StepBy(s, Head(path)) : TRUE, Tail(path))

(* C16: in ucs every state recorded in came_from is linked to the start   *)
(* state, the only one with the sentinel entry, by exactly cost_so_far     *)
(* links of costs falling by one, replaying the reconstructed path from    *)
(* the start state gives the state back, and the printed path has the      *)
(* length of the popped cost. Each iteration is checked to leave the       *)
(* entries it found as they were, so the walk from a state is checked in   *)
(* full when the state is recorded and is the same walk from then on       *)
C16_LinksReachStart ==
    [][algorithm = "uniform-cost" =>
          LET old == IF pc = "ucs" THEN DOMAIN came_from ELSE {}
          IN  /\ (pc = "ucs" /\ nodes_expanded = 0) =>
                    /\ DOMAIN came_from = {start_state}
                    /\ came_from[start_state] = <<NoneAction, NoneState>>
                    /\ cost_so_far[start_state] = 0
              /\ DOMAIN came_from' = DOMAIN cost_so_far'
              /\ \A s \in old :
                    /\ s \in DOMAIN came_from'
                    /\ came_from'[s] = came_from[s]
                    /\ cost_so_far'[s] = cost_so_far[s]
              /\ \A s \in (DOMAIN came_from') \ old :
                    /\ (came_from'[s] = <<NoneAction, NoneState>>)
                          <=> (s = start_state)
                    /\ s # start_state =>
                          /\ came_from'[s][2] \in DOMAIN came_from'
                          /\ cost_so_far'[came_from'[s][2]] = cost_so_far'[s] - 1
                          /\ s \in StepBy(came_from'[s][2], came_from'[s][1])
                    /\ LinksToStart(came_from', s, cost_so_far'[s])
                          = cost_so_far'[s]
                    /\ LET path == reconstruct_path(came_from', s)
                       IN  /\ Len(path) = cost_so_far'[s]
                           /\ Replay(start_state, path) = s
              /\ (pc = "ucs" /\ pc' = "done" /\ output' # << >>) =>
                    /\ Len(output') - 2 = cost_so_far'[current_state']
                    /\ [i \in 1..(Len(output') - 2) |-> output'[i][1]]
                          = reconstruct_path(came_from', current_state')]_vars

C16_Witness ==
    /\ algorithm = "uniform-cost"
    /\ \E s \in DOMAIN came_from :
          /\ cost_so_far[s] >= 3
          /\ \E i \in 1..3 : reconstruct_path(came_from, s)[i] = "V"

\* the number of V actions in path
RECURSIVE CountV(_)
CountV(path) ==
    IF path = << >> THEN 0
    ELSE (IF Head(path) = "V" THEN 1 ELSE 0) + CountV(Tail(path))

\* the states waiting in the frontier of the running strategy
FrontierStates ==
    {stack[i][1] : i \in 1..Len(stack)} \cup {heap[i][2] : i \in 1..Len(heap)}

(* C17: every state on the dfs stack or the ucs heap stands on an         *)
(* in-bounds cell that is not a wall and holds a subset of the initial     *)
(* dirt; along every recorded path (a stack entry's path, a came_from      *)
(* link) the dirty set gains nothing and loses exactly one cell, the       *)
(* agent's, at each V                                                      *)
C17_StatesStayInWorld ==
    /\ \A s \in FrontierStates :
          /\ s.position \in Cells(Rows, Cols)
          /\ ~IsWall(s.position)
          /\ s.dirty \subseteq start_state.dirty
    /\ \A i \in 1..Len(stack) :
          /\ Replay(start_state, stack[i][2]) = stack[i][1]
          /\ CountV(stack[i][2]) =
                Cardinality(start_state.dirty) - Cardinality(stack[i][1].dirty)
    /\ \A s \in (DOMAIN came_from) \ {start_state} :
          LET a == came_from[s][1]
              prev == came_from[s][2]
          IN  /\ s.dirty \subseteq prev.dirty
              /\ a = "V" => /\ prev.position \in prev.dirty
                            /\ prev.dirty \ s.dirty = {prev.position}
              /\ a # "V" => s.dirty = prev.dirty

\* a waiting state that has lost dirt next to a wall of the grid
C17_Witness ==
    /\ pc \in {"dfs", "ucs"}
    /\ \E s \in FrontierStates : s.dirty # start_state.dirty
    /\ \E p \in Cells(Rows, Cols) : IsWall(p)
    /\ Cardinality(FrontierStates) >= 2

(* C18: dfs is not optimal: on some world its printed path is strictly   *)
(* longer than the one ucs prints, which has the least length; on no world *)
(* where both print is the dfs path the shorter one                        *)
C18_DfsNeverShorter ==
    (pc = "done" /\ output # << >>) =>
        /\ ShortestLen >= 0
        /\ algorithm = "uniform-cost" => Len(PrintedPath) = ShortestLen
        /\ algorithm = "depth-first" => Len(PrintedPath) >= ShortestLen

\* a world on which dfs prints a path longer than the path of ucs
C18_Witness ==
    /\ pc = "done" /\ output # << >>
    /\ algorithm = "depth-first"
    /\ Len(PrintedPath) > ShortestLen

\* the cells that moves through in-bounds non-wall cells reach from frontier
RECURSIVE Flood(_, _)
Flood(frontier, seen) ==
    IF frontier = {} THEN seen
    ELSE LET next == {t \in Cells(Rows, Cols) :
                        /\ ~IsWall(t)
                        /\ t \notin seen
                        /\ \E p \in frontier :
                              \/ (t[1] = p[1] /\ (t[2] - p[2]) \in {-1, 1})
                              \/ (t[2] = p[2] /\ (t[1] - p[1]) \in {-1, 1})}
         IN  Flood(next, seen \cup next)

\* every initially dirty cell can be reached from the start position
AllDirtReachable ==
    start_state.dirty \subseteq
        Flood({start_state.position}, {start_state.position})

(* C19: completeness: when every initially dirty cell can be reached from *)
(* the start position, each iteration of dfs and of ucs finds its frontier *)
(* non-empty and brings the run nearer its end, and the run ends only by   *)
(* popping a state without dirt and printing a path and both counter lines *)
C19_Completeness ==
    [][(AllDirtReachable /\ pc \in {"dfs", "ucs"}) =>
          /\ (pc = "dfs" => stack # << >>)
          /\ (pc = "ucs" => heap # << >>)
          /\ Rank' < Rank /\ Rank' >= 0
          /\ pc' = "done" =>
                /\ current_state'.dirty = {}
                /\ Len(output') >= 2
                /\ output'[Len(output') - 1] =
                      <<nodes_generated', "nodes generated">>
                /\ output'[Len(output')] = <<nodes_expanded', "nodes expanded">>
                /\ \A i \in 1..(Len(output') - 2) :
                      output'[i][1] \in {"N", "S", "E", "W", "V"}
                /\ Replay(start_state, [i \in 1..(Len(output') - 2) |->
                                           output'[i][1]]) = current_state']_vars

\* a finished run on a world with a wall whose dirt could be reached
C19_Witness ==
    /\ AllDirtReachable
    /\ pc = "done" /\ output # << >>
    /\ start_state.dirty # {}
    /\ \E p \in Cells(Rows, Cols) : IsWall(p)
    /\ nodes_expanded >= 3

(* C20: in ucs an entry of cost_so_far and came_from, once made, is never *)
(* written again: every new_cost computed for a recorded state is at least *)
(* its recorded cost; so nodes_generated is the number of recorded states  *)
(* other than the start state                                              *)
C20_NeverRerecorded ==
    [][(pc = "ucs" /\ heap # << >>) =>
          /\ \A s \in DOMAIN cost_so_far :
                /\ s \in DOMAIN cost_so_far'
                /\ cost_so_far'[s] = cost_so_far[s]
                /\ came_from'[s] = came_from[s]
          /\ \A n \in LegalSuccessors(Head(heap)[2]) \cap DOMAIN cost_so_far :
                Head(heap)[1] + 1 >= cost_so_far[n]
          /\ nodes_generated = Cardinality(DOMAIN cost_so_far) - 1
          /\ nodes_generated' = Cardinality(DOMAIN cost_so_far') - 1
          /\ start_state \in DOMAIN cost_so_far]_vars

\* an expansion has met a neighbor that was recorded before and left it
C20_Witness ==
    /\ algorithm = "uniform-cost" /\ nodes_expanded >= 2
    /\ current_state # start_state
    /\ \E n \in LegalSuccessors(current_state) :
          /\ n \in DOMAIN cost_so_far
          /\ cost_so_far[n] < cost_so_far[current_state] + 1
          /\ came_from[n][2] # current_state

====
